---- MODULE Spec2Model ----
(***************************************************************************)
(* Model of the LLM evaluator backend: the metrics engine                  *)
(* (app/evaluation/metrics.py), the test_prompt handler                    *)
(* (app/evaluation/router.py), the evaluations table and the analytics     *)
(* aggregation (app/analytics/cruds/analytics.py).                         *)
(*                                                                         *)
(* Numbers.  Python floats are modelled as exact rationals <<n, d>> with   *)
(* d > 0 in lowest terms; None is the empty tuple and a raised             *)
(* ZeroDivisionError is a one-element tuple, so the three never compare    *)
(* equal.                                                                  *)
(*                                                                         *)
(* Text.  A string is the sequence of its whitespace-separated chunks; a   *)
(* chunk is the sequence of its characters.  The empty chunk stands for    *)
(* surplus whitespace, so <<>> is "" and <<Blank, Blank>> is " ".          *)
(***************************************************************************)
EXTENDS Integers, Sequences, FiniteSets, TLC

VARIABLES
    prompt,      \* calculate_metrics: argument prompt
    response,    \* calculate_metrics: argument response
    metrics,     \* calculate_metrics: returned dict, NoCall before the call
    tokens,      \* _repetition_penalty: argument tokens
    penalty,     \* _repetition_penalty: returned value, None before the call
    up,          \* the process has run its module start-up (main.py)
    store,       \* the evaluations table, in insertion (id) order
    origin,      \* history: for each row of store, what inserted it
    seeding,     \* history: what the start-up call of populate_db_from_csv
                 \* logged and the table it found, NoCall while the process is down
    req,         \* the test_prompt request in flight or just answered, or Idle;
                 \* its order and rows0 fields are history: the order in which
                 \* the tasks ended, the table size when the request began
    apc,         \* position of the get_analytics call in flight
    a_scatter,   \* get_analytics: rows fetched by the scatter query
    a_compare,   \* get_analytics: rows fetched by the model_comparison query
    payload      \* what the get_analytics call returns, NoCall until it does

vars == <<prompt, response, metrics, tokens, penalty, up, store, origin,
          seeding, req, apc, a_scatter, a_compare, payload>>

engine_vars == <<prompt, response, metrics>>
rep_vars == <<tokens, penalty>>
service_vars == <<up, store, origin, seeding, req>>
analytics_vars == <<apc, a_scatter, a_compare, payload>>

-----------------------------------------------------------------------------
(* Bounds of the model *)

MaxPromptLen == 2
MaxResponseLen == 3
MaxTokens == 5
MaxPairs == 2
MaxRows == 2
MaxTableRows == 3

-----------------------------------------------------------------------------
(* Python values *)

None == <<>>
ZeroDivisionError == <<"ZeroDivisionError">>
NoMetrics == [none |-> TRUE]
NoCall == [called |-> FALSE]
NoOutput == << <<"None">> >>
Idle == [pc |-> "idle"]

-----------------------------------------------------------------------------
(* Exact arithmetic standing for float arithmetic *)

Abs(x) == IF x < 0 THEN 0 - x ELSE x

RECURSIVE GCD(_, _)
GCD(a, b) == IF b = 0 THEN a ELSE GCD(b, a % b)

Rat(n, d) ==
    LET s == IF d < 0 THEN 0 - 1 ELSE 1
        g == GCD(Abs(n), Abs(d))
    IN  <<(s * n) \div g, (s * d) \div g>>

Zero == <<0, 1>>
Hundred == <<100, 1>>
IsNum(q) == Len(q) = 2

RAdd(a, b) == Rat(a[1] * b[2] + b[1] * a[2], a[2] * b[2])
RSub(a, b) == Rat(a[1] * b[2] - b[1] * a[2], a[2] * b[2])
RMul(a, b) == Rat(a[1] * b[1], a[2] * b[2])
RLess(a, b) == a[1] * b[2] < b[1] * a[2]
RLeq(a, b) == a[1] * b[2] <= b[1] * a[2]

\* a / b as Python evaluates it: raises on a zero divisor, and an operand
\* that is itself a raised error propagates.
PyDiv(a, b) ==
    IF ~IsNum(a) \/ ~IsNum(b) THEN ZeroDivisionError
    ELSE IF b[1] = 0 THEN ZeroDivisionError
    ELSE Rat(a[1] * b[2], a[2] * b[1])

PyMul(a, b) == IF ~IsNum(a) \/ ~IsNum(b) THEN ZeroDivisionError ELSE RMul(a, b)

RInt(n) == <<n, 1>>

PyAdd(a, b) == IF ~IsNum(a) \/ ~IsNum(b) THEN ZeroDivisionError ELSE RAdd(a, b)
PySub(a, b) == IF ~IsNum(a) \/ ~IsNum(b) THEN ZeroDivisionError ELSE RSub(a, b)

Max(a, b) == IF a >= b THEN a ELSE b

-----------------------------------------------------------------------------
(* Strings and the NLTK primitives the engine calls *)

Blank == <<>>
Dot == <<".">>
The == <<"t", "h", "e">>
Cat == <<"c", "a", "t">>
CatCap == <<"C", "a", "t">>
Ape == <<"a", "p", "e">>

Chunks == {Blank, Dot, The, Cat, CatCap, Ape}

Texts(n) == UNION {[1..k -> Chunks] : k \in 0..n}

\* str.lower() on the characters the model's strings use
LowerChar(c) ==
    CASE c = "A" -> "a"
      [] c = "C" -> "c"
      [] c = "E" -> "e"
      [] c = "T" -> "t"
      [] OTHER -> c

lower(text) == [i \in 1..Len(text) |-> [j \in 1..Len(text[i]) |-> LowerChar(text[i][j])]]

\* nltk word_tokenize: the non-empty chunks, punctuation being a token
word_tokenize(text) == SelectSeq(text, LAMBDA c : c # Blank)

\* nltk sent_tokenize: one sentence per word that opens the text or follows
\* a full stop; only the length of the list is used
sent_tokenize(text) ==
    LET toks == word_tokenize(text)
        starts == {i \in 1..Len(toks) : toks[i] # Dot /\ (i = 1 \/ toks[i - 1] = Dot)}
    IN  [k \in 1..Cardinality(starts) |-> "sentence"]

\* stopwords.words("english"), restricted to the words of the model
stop_words == {The}

SeqToSet(s) == {s[i] : i \in 1..Len(s)}

-----------------------------------------------------------------------------
(* Metrics engine: app/evaluation/metrics.py *)

vowels == {"a", "e", "i", "o", "u", "y"}

\* the for loop of _count_syllables from character i on
RECURSIVE syllable_scan(_, _, _, _)
syllable_scan(word, i, count, prev_is_vowel) ==
    IF i > Len(word) THEN count
    ELSE LET is_vowel == word[i] \in vowels
         IN  syllable_scan(word, i + 1,
                           IF is_vowel /\ ~prev_is_vowel THEN count + 1 ELSE count,
                           is_vowel)

count_syllables(w) ==
    LET word == [j \in 1..Len(w) |-> LowerChar(w[j])]
        count == syllable_scan(word, 1, 0, FALSE)
        adjusted == IF Len(word) > 0 /\ word[Len(word)] = "e" /\ count > 1
                    THEN count - 1 ELSE count
    IN  Max(adjusted, 1)

flesch_kincaid_grade(num_sentences, num_words, num_syllables) ==
    IF num_sentences <= 0 \/ num_words <= 0 THEN Zero
    ELSE PySub(PyAdd(PyMul(<<39, 100>>, PyDiv(RInt(num_words), RInt(num_sentences))),
                     PyMul(<<118, 10>>, PyDiv(RInt(num_syllables), RInt(num_words)))),
               <<1559, 100>>)

ShortTextTokens == 50

ngrams_of(toks, n) == [i \in 1..(Len(toks) - n + 1) |-> SubSeq(toks, i, i + n - 1)]

ratio_for_n(toks, n) ==
    IF Len(toks) < n THEN Zero
    ELSE LET ngrams == ngrams_of(toks, n)
             total == Len(ngrams)
         IN  IF total = 0 THEN Zero
             ELSE LET unique == Cardinality(SeqToSet(ngrams))
                      repeats == total - unique
                  IN  PyMul(PyDiv(RInt(repeats), RInt(total)), Hundred)

\* faulty variant: the length test of the fallback is lost
repetition_penalty_no_length_test(toks) ==
    LET r3 == ratio_for_n(toks, 3)
    IN  IF RLess(Zero, r3) THEN r3 ELSE ratio_for_n(toks, 2)

repetition_penalty(toks) ==
    LET r3 == ratio_for_n(toks, 3)
    IN  IF RLess(Zero, r3) \/ Len(toks) >= ShortTextTokens THEN r3
        ELSE ratio_for_n(toks, 2)

\* faulty variant: the token list is counted instead of the set of tokens
lexical_diversity_of_list(toks) ==
    PyMul(PyDiv(RInt(Len(toks)), RInt(Len(toks))), Hundred)

lexical_diversity_of(toks) ==
    PyMul(PyDiv(RInt(Cardinality(SeqToSet(toks))), RInt(Len(toks))), Hundred)

\* faulty variant: a prompt without keywords scores 0 instead of 100
query_coverage_of_zero_default(p, toks) ==
    LET prompt_words == SeqToSet(word_tokenize(lower(p)))
        prompt_keywords == prompt_words \ stop_words
        response_words == SeqToSet(toks)
        covered == prompt_keywords \cap response_words
    IN  IF prompt_keywords # {}
        THEN PyMul(PyDiv(RInt(Cardinality(covered)), RInt(Cardinality(prompt_keywords))),
                   Hundred)
        ELSE Zero

query_coverage_of(p, toks) ==
    LET prompt_words == SeqToSet(word_tokenize(lower(p)))
        prompt_keywords == prompt_words \ stop_words
        response_words == SeqToSet(toks)
        covered == prompt_keywords \cap response_words
    IN  IF prompt_keywords # {}
        THEN PyMul(PyDiv(RInt(Cardinality(covered)), RInt(Cardinality(prompt_keywords))),
                   Hundred)
        ELSE Hundred

RECURSIVE sum_syllables(_)
sum_syllables(toks) ==
    IF toks = <<>> THEN 0 ELSE count_syllables(Head(toks)) + sum_syllables(Tail(toks))

fk_grade_of(text, toks) ==
    LET sentences == sent_tokenize(text)
        num_sentences == Max(Len(sentences), 1)
        num_words == Len(toks)
        num_syllables == sum_syllables(toks)
    IN  flesch_kincaid_grade(num_sentences, num_words, num_syllables)

\* calculate_metrics past its empty-token return
scored_metrics(p, text, toks) ==
    [lexical_diversity |-> lexical_diversity_of(toks),
     query_coverage |-> query_coverage_of(p, toks),
     flesch_kincaid_grade |-> fk_grade_of(text, toks),
     repetition_penalty |-> repetition_penalty(toks)]

zero_metrics ==
    [lexical_diversity |-> Zero,
     query_coverage |-> Zero,
     flesch_kincaid_grade |-> Zero,
     repetition_penalty |-> Zero]

\* faulty variant: the empty-token return is lost
calculate_metrics_no_short_circuit(p, r) ==
    scored_metrics(p, r, word_tokenize(lower(r)))

calculate_metrics(p, r) ==
    LET text == r
        toks == word_tokenize(lower(text))
    IN  IF toks = <<>> THEN zero_metrics ELSE scored_metrics(p, text, toks)

MetricFields == {"lexical_diversity", "query_coverage", "flesch_kincaid_grade",
                 "repetition_penalty"}

\* the call raised instead of returning four numbers
Raised(m) == \E f \in MetricFields : ~IsNum(m[f])

-----------------------------------------------------------------------------
(* Aggregation: app/analytics/cruds/analytics.py *)

RECURSIVE sum_field(_, _)
sum_field(rows, f) ==
    IF rows = <<>> THEN Zero ELSE RAdd(Head(rows)[f], sum_field(Tail(rows), f))

\* SQL AVG over the selected rows: NULL when there are none
sql_avg(rows, f) ==
    IF rows = <<>> THEN None ELSE PyDiv(sum_field(rows, f), RInt(Len(rows)))

\* faulty variant: temperature is not a grouping column
scatter_key_without_temperature(r) == <<r.model, Zero, r.top_p>>

scatter_key(r) == <<r.model, r.temperature, r.top_p>>

\* first query: GROUP BY model, temperature, top_p.  The list a GROUP BY
\* returns has no defined order and is modelled as the set of its rows.
scatter_query(tbl) ==
    {LET rows == SelectSeq(tbl, LAMBDA r : scatter_key(r) = k)
     IN  [model |-> k[1],
          temperature |-> k[2],
          top_p |-> k[3],
          avg_lexical_diversity |-> sql_avg(rows, "lexical_diversity"),
          avg_query_coverage |-> sql_avg(rows, "query_coverage"),
          avg_fk_grade |-> sql_avg(rows, "flesch_kincaid_grade"),
          avg_repetition_penalty |-> sql_avg(rows, "repetition_penalty"),
          run_count |-> Len(rows)]
     : k \in {scatter_key(tbl[i]) : i \in 1..Len(tbl)}}

\* second query: GROUP BY model
compare_query(tbl) ==
    {LET rows == SelectSeq(tbl, LAMBDA r : r.model = m)
     IN  [model |-> m,
          avg_lexical_diversity |-> sql_avg(rows, "lexical_diversity"),
          avg_query_coverage |-> sql_avg(rows, "query_coverage"),
          avg_fk_grade |-> sql_avg(rows, "flesch_kincaid_grade"),
          avg_repetition_penalty |-> sql_avg(rows, "repetition_penalty")]
     : m \in {tbl[i].model : i \in 1..Len(tbl)}}

\* third query: the four averages over the whole table
overall_query(tbl) ==
    <<sql_avg(tbl, "lexical_diversity"),
      sql_avg(tbl, "query_coverage"),
      sql_avg(tbl, "flesch_kincaid_grade"),
      sql_avg(tbl, "repetition_penalty")>>

RMin(S) == CHOOSE v \in S : \A w \in S : RLeq(v, w)
RMax(S) == CHOOSE v \in S : \A w \in S : RLeq(w, v)

min_max(vals) ==
    LET present == {v \in vals : v # None}
    IN  IF present = {} THEN <<Zero, Zero>> ELSE <<RMin(present), RMax(present)>>

EpsilonDen == 1000000000
Epsilon == <<1, EpsilonDen>>

\* faulty variant: a degenerate range scores the full 100
norm_high_is_better_full_on_tie(x, vmin, vmax) ==
    IF RSub(vmax, vmin) # Zero
    THEN PyDiv(PyMul(Hundred, RSub(x, vmin)), RSub(vmax, vmin))
    ELSE Hundred

norm_high_is_better(x, vmin, vmax) ==
    LET rng == IF RSub(vmax, vmin) # Zero THEN RSub(vmax, vmin) ELSE Epsilon
    IN  PyDiv(PyMul(Hundred, RSub(x, vmin)), rng)

norm_low_is_better(x, vmin, vmax) ==
    LET rng == IF RSub(vmax, vmin) # Zero THEN RSub(vmax, vmin) ELSE Epsilon
    IN  PyDiv(PyMul(Hundred, RSub(vmax, x)), rng)

\* round(x, 2): the nearest multiple of 1/100, a tie going to the even one
round2(x) ==
    LET n == x[1] * 100
        d == x[2]
        fl == n \div d
        twice == 2 * (n - fl * d)
        k == IF twice < d THEN fl
             ELSE IF twice > d THEN fl + 1
             ELSE IF fl % 2 = 0 THEN fl ELSE fl + 1
    IN  Rat(k, 100)

\* faulty variant: the averages are rounded before min, max and rescaling
normalize_view_rounded_first(rows) ==
    IF rows = {} THEN rows
    ELSE LET fk == min_max({round2(r.avg_fk_grade) : r \in rows})
             rp == min_max({round2(r.avg_repetition_penalty) : r \in rows})
         IN  {r @@ [norm_lexical_diversity |-> round2(r.avg_lexical_diversity),
                    norm_query_coverage |-> round2(r.avg_query_coverage),
                    norm_fk_grade |->
                        round2(norm_high_is_better(round2(r.avg_fk_grade), fk[1], fk[2])),
                    norm_repetition_penalty |->
                        round2(norm_low_is_better(round2(r.avg_repetition_penalty),
                                                  rp[1], rp[2]))]
              : r \in rows}

\* the "if scatter:" / "if compare:" block over one view's rows
normalize_view(rows) ==
    IF rows = {} THEN rows
    ELSE LET fk == min_max({r.avg_fk_grade : r \in rows})
             rp == min_max({r.avg_repetition_penalty : r \in rows})
         IN  {r @@ [norm_lexical_diversity |-> round2(r.avg_lexical_diversity),
                    norm_query_coverage |-> round2(r.avg_query_coverage),
                    norm_fk_grade |->
                        round2(norm_high_is_better(r.avg_fk_grade, fk[1], fk[2])),
                    norm_repetition_penalty |->
                        round2(norm_low_is_better(r.avg_repetition_penalty, rp[1], rp[2]))]
              : r \in rows}

\* faulty variant: an average over no rows stays None
kpi_value_null(v) == IF v # None THEN round2(v) ELSE None

\* round(v, 2) if v else 0
kpi_value(v) == IF v # None /\ v # Zero THEN round2(v) ELSE Zero

\* faulty variant: model_comparison is rescaled against the scatter view's range
analytics_payload_shared_range(scatter, compare, overall) ==
    LET fk == min_max({r.avg_fk_grade : r \in scatter})
        rp == min_max({r.avg_repetition_penalty : r \in scatter})
    IN  [scatter_data |-> normalize_view(scatter),
         model_comparison |->
            {r @@ [norm_lexical_diversity |-> round2(r.avg_lexical_diversity),
                   norm_query_coverage |-> round2(r.avg_query_coverage),
                   norm_fk_grade |->
                       round2(norm_high_is_better(r.avg_fk_grade, fk[1], fk[2])),
                   norm_repetition_penalty |->
                       round2(norm_low_is_better(r.avg_repetition_penalty, rp[1], rp[2]))]
             : r \in compare},
         kpi |-> [overall_avg_lexical_diversity |-> kpi_value(overall[1]),
                  overall_avg_query_coverage |-> kpi_value(overall[2]),
                  overall_avg_fk_grade |-> kpi_value(overall[3]),
                  overall_avg_repetition_penalty |-> kpi_value(overall[4])]]

analytics_payload(scatter, compare, overall) ==
    [scatter_data |-> normalize_view(scatter),
     model_comparison |-> normalize_view(compare),
     kpi |-> [overall_avg_lexical_diversity |-> kpi_value(overall[1]),
              overall_avg_query_coverage |-> kpi_value(overall[2]),
              overall_avg_fk_grade |-> kpi_value(overall[3]),
              overall_avg_repetition_penalty |-> kpi_value(overall[4])]]

\* get_analytics when all three queries read the same table contents
analytics_of(tbl) ==
    analytics_payload(scatter_query(tbl), compare_query(tbl), overall_query(tbl))

-----------------------------------------------------------------------------
(* Service state: app/evaluation/router.py, cruds/evaluation.py, startup.py *)

Models == {"model-a", "model-b"}

PairLow == [temperature |-> <<1, 5>>, top_p |-> <<9, 10>>]
PairHigh == [temperature |-> <<7, 10>>, top_p |-> <<9, 10>>]
ParamPairs == {PairLow, PairHigh}

PairLists == UNION {[1..k -> ParamPairs] : k \in 0..MaxPairs}

\* what the service is asked and what the external model answers
RequestPrompts == {<<The, CatCap>>}
ApiTexts == {<<>>, <<Cat, Ape, Dot>>}

Pending == [pending |-> TRUE]
ApiError == "An API error occurred"
\* tag of a task whose exception left _call_google_ai instead of being caught
Uncaught == "uncaught exception"

\* _call_google_ai once the awaited call ended: outcome.ok with outcome.text,
\* or an exception
\* faulty variant: the awaited call stands outside the try block, so its
\* exception leaves the coroutine
call_google_ai_uncaught(model_name, p, temp, top_p, outcome) ==
    LET failed == [temperature |-> temp, top_p |-> top_p, output |-> NoOutput,
                   metrics |-> NoMetrics, error |-> ApiError]
    IN  IF ~outcome.ok
        THEN [failed EXCEPT !.error = Uncaught]
        ELSE LET text == outcome.text
                 m == calculate_metrics(p, text)
             IN  IF Raised(m) THEN failed
                 ELSE [temperature |-> temp, top_p |-> top_p, output |-> text,
                       metrics |-> m, error |-> "None"]

call_google_ai(model_name, p, temp, top_p, outcome) ==
    LET failed == [temperature |-> temp, top_p |-> top_p, output |-> NoOutput,
                   metrics |-> NoMetrics, error |-> ApiError]
    IN  IF ~outcome.ok THEN failed
        ELSE LET text == outcome.text
                 m == calculate_metrics(p, text)
             IN  IF Raised(m) THEN failed
                 ELSE [temperature |-> temp, top_p |-> top_p, output |-> text,
                       metrics |-> m, error |-> "None"]

\* the row create_evaluation inserts for result r of the request
evaluation_row(pl, r) ==
    [prompt |-> pl.prompt,
     model |-> pl.model,
     temperature |-> r.temperature,
     top_p |-> r.top_p,
     lexical_diversity |-> r.metrics.lexical_diversity,
     query_coverage |-> r.metrics.query_coverage,
     flesch_kincaid_grade |-> r.metrics.flesch_kincaid_grade,
     repetition_penalty |-> r.metrics.repetition_penalty]

\* faulty variant: a dict of zero values is taken for falsy as well
has_metrics_nonzero(r) == r.metrics # NoMetrics /\ r.metrics # zero_metrics

\* r.get("metrics"): None is falsy, the four-key dict is truthy
has_metrics(r) == r.metrics # NoMetrics

\* a CSV cell "i.ff" is the pair <<i, ff>>; float() of it
parse_float(cell) == Rat(cell[1] * 100 + cell[2], 100)

csv_row(r) ==
    [prompt |-> r.prompt,
     model |-> r.model,
     temperature |-> parse_float(r.temperature),
     top_p |-> parse_float(r.top_p),
     lexical_diversity |-> parse_float(r.lexical_diversity),
     query_coverage |-> parse_float(r.query_coverage),
     flesch_kincaid_grade |-> parse_float(r.flesch_kincaid_grade),
     repetition_penalty |-> parse_float(r.repetition_penalty)]

SeedLine ==
    [prompt |-> <<Cat>>, model |-> "model-a",
     temperature |-> <<0, 20>>, top_p |-> <<0, 90>>,
     lexical_diversity |-> <<66, 67>>, query_coverage |-> <<50, 0>>,
     flesch_kincaid_grade |-> <<4, 25>>, repetition_penalty |-> <<12, 50>>]

CsvFiles ==
    {[exists |-> FALSE, lines |-> <<>>],
     [exists |-> TRUE, lines |-> <<>>],
     [exists |-> TRUE, lines |-> <<SeedLine>>]}

\* faulty variant: the rows are inserted without looking at the table first
populate_db_from_csv_unguarded(tbl, csv) ==
    IF ~csv.exists THEN <<>>
    ELSE [i \in 1..Len(csv.lines) |-> csv_row(csv.lines[i])]

\* the rows populate_db_from_csv adds to table tbl
populate_db_from_csv(tbl, csv) ==
    IF tbl # <<>> THEN <<>>
    ELSE IF ~csv.exists THEN <<>>
    ELSE [i \in 1..Len(csv.lines) |-> csv_row(csv.lines[i])]

\* what populate_db_from_csv logs, one message for each way it ends
seed_log(tbl, csv) ==
    IF tbl # <<>> THEN "already populated"
    ELSE IF ~csv.exists THEN "not found"
    ELSE IF csv.lines = <<>> THEN "no rows"
    ELSE "seeded"

-----------------------------------------------------------------------------
(* Inputs of the engine and aggregation checks *)

TokenAlphabet == {"a", "b", "c"}

DeBruijn ==
  <<"a", "a", "a", "b", "a", "a", "c", "a", "a", "d", "a",
     "b", "b", "a", "b", "c", "a", "b", "d", "a", "c", "b",
     "a", "c", "c", "a", "c", "d", "a", "d", "b", "a", "d",
     "c", "a", "d", "d", "b", "b", "b", "c", "b", "b", "d",
     "b", "c", "c", "b", "c", "d", "b", "d", "c", "b", "d",
     "d", "c", "c", "c", "d", "c", "d", "d", "d", "a", "a">>

Repeat5(phrase) == phrase \o phrase \o phrase \o phrase \o phrase

TokenLists ==
    UNION {[1..k -> TokenAlphabet] : k \in 0..MaxTokens}
    \cup {Repeat5(ph) : ph \in [1..3 -> TokenAlphabet]}
    \cup {SubSeq(DeBruijn, 1, n) : n \in (ShortTextTokens - 2)..(ShortTextTokens + 2)}
    \cup {[i \in 1..n |-> "a"] : n \in (ShortTextTokens - 1)..ShortTextTokens}

Profiles ==
    {[lexical_diversity |-> <<100, 1>>, query_coverage |-> <<100, 1>>,
      flesch_kincaid_grade |-> <<4, 1>>, repetition_penalty |-> <<0, 1>>],
     [lexical_diversity |-> <<100, 3>>, query_coverage |-> <<50, 1>>,
      flesch_kincaid_grade |-> <<10, 1>>, repetition_penalty |-> <<50, 1>>],
     [lexical_diversity |-> <<50, 1>>, query_coverage |-> <<0, 1>>,
      flesch_kincaid_grade |-> <<1, 250>>, repetition_penalty |-> <<100, 3>>],
     [lexical_diversity |-> <<200, 3>>, query_coverage |-> <<100, 1>>,
      flesch_kincaid_grade |-> <<0 - 1, 125>>, repetition_penalty |-> <<1, 8>>]}

GroupKeys == {<<"model-a", PairLow>>, <<"model-a", PairHigh>>, <<"model-b", PairLow>>}

TableRows ==
    {[prompt |-> <<Cat>>, model |-> k[1],
      temperature |-> k[2].temperature, top_p |-> k[2].top_p,
      lexical_diversity |-> pr.lexical_diversity,
      query_coverage |-> pr.query_coverage,
      flesch_kincaid_grade |-> pr.flesch_kincaid_grade,
      repetition_penalty |-> pr.repetition_penalty]
     : k \in GroupKeys, pr \in Profiles}

Tables == UNION {[1..k -> TableRows] : k \in 0..MaxTableRows}

\* What a statement of a request's database session reads.  The session
\* factory (app/database.py) sets no isolation level and get_analytics opens
\* no explicit transaction, so every statement reads the rows committed at
\* the moment it runs.
visible_rows(tbl) == SubSeq(tbl, 1, Len(tbl))

-----------------------------------------------------------------------------
(* Initial states *)

EngineIdle == prompt = <<>> /\ response = <<>> /\ metrics = NoCall
RepIdle == tokens = <<>> /\ penalty = None
AnalyticsIdle == apc = "idle" /\ a_scatter = {} /\ a_compare = {} /\ payload = NoCall

\* a fresh deployment: empty table, process not yet started
Init ==
    /\ EngineIdle /\ RepIdle /\ AnalyticsIdle
    /\ up = FALSE
    /\ store = <<>>
    /\ origin = <<>>
    /\ seeding = NoCall
    /\ req = Idle

\* one call of calculate_metrics on any prompt and response
InitMetrics ==
    /\ prompt \in Texts(MaxPromptLen)
    /\ response \in Texts(MaxResponseLen)
    /\ metrics = NoCall
    /\ RepIdle /\ AnalyticsIdle
    /\ up = FALSE /\ store = <<>> /\ origin = <<>> /\ seeding = NoCall /\ req = Idle

\* one call of _repetition_penalty on any token list
InitRepetition ==
    /\ tokens \in TokenLists
    /\ penalty = None
    /\ EngineIdle /\ AnalyticsIdle
    /\ up = FALSE /\ store = <<>> /\ origin = <<>> /\ seeding = NoCall /\ req = Idle

\* a running service over any stored table, nothing writing to it
InitAnalytics ==
    /\ EngineIdle /\ RepIdle /\ AnalyticsIdle
    /\ up = TRUE
    /\ store \in Tables
    /\ origin = [i \in 1..Len(store) |-> [kind |-> "seed"]]
    /\ seeding = [log |-> seed_log(store, [exists |-> FALSE, lines |-> <<>>]), before |-> store]
    /\ req = Idle

-----------------------------------------------------------------------------
(* Actions *)

CalculateMetrics ==
    /\ metrics = NoCall
    /\ metrics' = calculate_metrics(prompt, response)
    /\ UNCHANGED <<prompt, response, rep_vars, service_vars, analytics_vars>>

RepetitionPenalty ==
    /\ penalty = None
    /\ penalty' = repetition_penalty(tokens)
    /\ UNCHANGED <<tokens, engine_vars, service_vars, analytics_vars>>

\* main.py: create the tables, seed from the CSV, serve
Startup ==
    /\ ~up
    /\ \E csv \in CsvFiles :
         LET added == populate_db_from_csv(store, csv)
         IN  /\ store' = store \o added
             /\ origin' = origin \o [i \in 1..Len(added) |-> [kind |-> "seed"]]
             /\ seeding' = [log |-> seed_log(store, csv), before |-> store]
    /\ up' = TRUE
    /\ UNCHANGED <<req, engine_vars, rep_vars, analytics_vars>>

\* the process stops; requests in flight are lost, the table is kept
Shutdown ==
    /\ up
    /\ up' = FALSE
    /\ seeding' = NoCall
    /\ req' = Idle
    /\ apc' = "idle" /\ a_scatter' = {} /\ a_compare' = {} /\ payload' = NoCall
    /\ UNCHANGED <<store, origin, engine_vars, rep_vars>>

\* test_prompt: build one task per parameter pair and await them
TestPromptStart ==
    /\ up /\ req = Idle
    /\ \E p \in RequestPrompts, m \in Models, pairs \in PairLists :
         /\ Len(store) + Len(pairs) <= MaxRows
         /\ req' = [pc |-> "gather",
                    payload |-> [prompt |-> p, model |-> m, param_pairs |-> pairs],
                    results |-> [i \in 1..Len(pairs) |-> Pending],
                    next |-> 1,
                    order |-> <<>>,
                    rows0 |-> Len(store)]
    /\ UNCHANGED <<up, store, origin, seeding, engine_vars, rep_vars, analytics_vars>>

CallEnds(i, outcome) ==
    /\ up /\ req # Idle /\ req.pc = "gather"
    /\ i \in 1..Len(req.results)
    /\ req.results[i] = Pending
    /\ LET pair == req.payload.param_pairs[i]
       IN  req' = [req EXCEPT !.results[i] =
                      call_google_ai(req.payload.model, req.payload.prompt,
                                     pair.temperature, pair.top_p, outcome),
                                  !.order = Append(@, i)]
    /\ UNCHANGED <<up, store, origin, seeding, engine_vars, rep_vars, analytics_vars>>

\* one awaited external call returns a text
CallSucceeds ==
    \E i \in 1..MaxPairs, text \in ApiTexts : CallEnds(i, [ok |-> TRUE, text |-> text])

\* one awaited external call raises
CallFails ==
    \E i \in 1..MaxPairs : CallEnds(i, [ok |-> FALSE, text |-> <<>>])

\* a task ended by an exception that _call_google_ai did not catch
raised_out(r) == r # Pending /\ r.error = Uncaught

\* await asyncio.gather(*tasks): the list of results once every task has
\* ended, or the first uncaught exception of a task, which ends the handler
gather_outcome(results) ==
    IF \E i \in 1..Len(results) : raised_out(results[i]) THEN "failed" ELSE "persist"

\* asyncio.gather returns once every task has ended, or raises
GatherReturns ==
    /\ up /\ req # Idle /\ req.pc = "gather"
    /\ \/ \A i \in 1..Len(req.results) : req.results[i] # Pending
       \/ \E i \in 1..Len(req.results) : raised_out(req.results[i])
    /\ req' = [req EXCEPT !.pc = gather_outcome(req.results)]
    /\ UNCHANGED <<up, store, origin, seeding, engine_vars, rep_vars, analytics_vars>>

\* faulty variant: a failed pair is stored too, with zeroed metrics
persist_result_unfiltered(pl, r) ==
    <<evaluation_row(pl, IF has_metrics(r) THEN r ELSE [r EXCEPT !.metrics = zero_metrics])>>

\* the rows one iteration of "for r in results" adds to the table
persist_result(pl, r) == IF has_metrics(r) THEN <<evaluation_row(pl, r)>> ELSE <<>>

\* one iteration of the persist loop; create_evaluation commits the row
PersistNext ==
    /\ up /\ req # Idle /\ req.pc = "persist"
    /\ req.next <= Len(req.results)
    /\ LET r == req.results[req.next]
           added == persist_result(req.payload, r)
       IN  /\ store' = store \o added
           /\ origin' = origin \o [i \in 1..Len(added) |->
                                      [kind |-> "test_prompt", result |-> r]]
    /\ req' = [req EXCEPT !.next = @ + 1]
    /\ UNCHANGED <<up, seeding, engine_vars, rep_vars, analytics_vars>>

\* "return results": the response is req.results
TestPromptReturn ==
    /\ up /\ req # Idle /\ req.pc = "persist"
    /\ req.next > Len(req.results)
    /\ req' = [req EXCEPT !.pc = "returned"]
    /\ UNCHANGED <<up, store, origin, seeding, engine_vars, rep_vars, analytics_vars>>

\* the response has been sent and the request's locals are dropped
TestPromptDone ==
    /\ up /\ req # Idle /\ req.pc \in {"returned", "failed"}
    /\ req' = Idle
    /\ UNCHANGED <<up, store, origin, seeding, engine_vars, rep_vars, analytics_vars>>

\* get_analytics, first query
AnalyticsScatter ==
    /\ up /\ apc = "idle"
    /\ a_scatter' = scatter_query(visible_rows(store))
    /\ apc' = "compare"
    /\ UNCHANGED <<a_compare, payload, engine_vars, rep_vars, service_vars>>

\* get_analytics, second query
AnalyticsCompare ==
    /\ up /\ apc = "compare"
    /\ a_compare' = compare_query(visible_rows(store))
    /\ apc' = "overall"
    /\ UNCHANGED <<a_scatter, payload, engine_vars, rep_vars, service_vars>>

\* get_analytics, third query, normalization and return
AnalyticsReturn ==
    /\ up /\ apc = "overall"
    /\ payload' = analytics_payload(a_scatter, a_compare,
                                  overall_query(visible_rows(store)))
    /\ apc' = "returned" /\ a_scatter' = {} /\ a_compare' = {}
    /\ UNCHANGED <<engine_vars, rep_vars, service_vars>>

\* the response has been sent and the call's locals are dropped
AnalyticsDone ==
    /\ up /\ apc = "returned"
    /\ apc' = "idle" /\ payload' = NoCall
    /\ UNCHANGED <<a_scatter, a_compare, engine_vars, rep_vars, service_vars>>

-----------------------------------------------------------------------------
(* Specifications *)

Next ==
    \/ Startup
    \/ Shutdown
    \/ TestPromptStart
    \/ CallSucceeds
    \/ CallFails
    \/ GatherReturns
    \/ PersistNext
    \/ TestPromptReturn
    \/ TestPromptDone
    \/ AnalyticsScatter
    \/ AnalyticsCompare
    \/ AnalyticsReturn
    \/ AnalyticsDone

Spec == Init /\ [][Next]_vars

NextMetrics == CalculateMetrics
SpecMetrics == InitMetrics /\ [][NextMetrics]_vars

NextRepetition == RepetitionPenalty
SpecRepetition == InitRepetition /\ [][NextRepetition]_vars

NextAnalytics == AnalyticsScatter \/ AnalyticsCompare \/ AnalyticsReturn \/ AnalyticsDone
SpecAnalytics == InitAnalytics /\ [][NextAnalytics]_vars

-----------------------------------------------------------------------------
(* Claims about the metrics engine *)

ResponseTokens == word_tokenize(lower(response))

\* the prompt is empty or holds only whitespace and stop words
NoPromptKeywords ==
    \A i \in 1..Len(prompt) : lower(prompt)[i] = Blank \/ lower(prompt)[i] \in stop_words

\* C1: calculate_metrics never raises, and a response that tokenizes to zero
\* tokens gets 0.0 in all four fields whatever the prompt is.
C1_NeverRaisesZeroOnNoTokens ==
    metrics # NoCall =>
        /\ ~Raised(metrics)
        /\ (ResponseTokens = <<>> => \A f \in MetricFields : metrics[f] = Zero)

\* a whitespace-only response scored against a prompt that has a keyword
C1_Witness ==
    /\ metrics # NoCall
    /\ response = <<Blank, Blank>>
    /\ prompt = <<CatCap>>

\* C2 as stated: without prompt keywords query_coverage is 100.0 for every
\* response.
C2_CoverageHundredForEveryResponse ==
    (metrics # NoCall /\ NoPromptKeywords) => metrics.query_coverage = Hundred

\* C2 amended: without prompt keywords query_coverage is 100.0 for every
\* response that has at least one token, and 0.0 for a response without tokens.
C2_CoverageHundredWhenTokens ==
    (metrics # NoCall /\ NoPromptKeywords) =>
        metrics.query_coverage = IF ResponseTokens # <<>> THEN Hundred ELSE Zero

\* a stop-word-only prompt scored against a response with tokens
C2_Witness ==
    /\ metrics # NoCall
    /\ prompt = <<The, Blank>>
    /\ response = <<Cat, Dot>>

AllDistinct(toks) == \A i, j \in 1..Len(toks) : i # j => toks[i] # toks[j]

\* C10: with at least one token, lexical_diversity is 100*|unique|/|tokens|,
\* lies in (0, 100], and is 100 exactly when the tokens are pairwise distinct.
C10_LexicalDiversityRange ==
    (metrics # NoCall /\ ResponseTokens # <<>>) =>
        LET ld == metrics.lexical_diversity
        IN  /\ IsNum(ld)
            /\ ld[1] * Len(ResponseTokens)
                 = 100 * Cardinality(SeqToSet(ResponseTokens)) * ld[2]
            /\ RLess(Zero, ld) /\ RLeq(ld, Hundred)
            /\ (ld = Hundred <=> AllDistinct(ResponseTokens))

\* three tokens of which two differ only in case: diversity below 100
C10_Witness ==
    /\ metrics # NoCall
    /\ response = <<Cat, CatCap, Ape>>
    /\ metrics.lexical_diversity = <<200, 3>>

\* number of n-token windows of toks that repeat an earlier window
WindowRepeats(toks, n) ==
    Cardinality({i \in 1..(Len(toks) - n + 1) :
                    \E j \in 1..(i - 1) : SubSeq(toks, j, j + n - 1) = SubSeq(toks, i, i + n - 1)})

\* 100 * (total - unique) / total over the n-token windows, 0 below n tokens
WindowPenalty(toks, n) ==
    IF Len(toks) < n THEN Zero
    ELSE Rat(100 * WindowRepeats(toks, n), Len(toks) - n + 1)

IsPhraseRepeatedFive(toks) ==
    /\ Len(toks) = 15
    /\ \A i \in 4..15 : toks[i] = toks[i - 3]

\* C8: the repetition penalty is the trigram ratio when that is positive or
\* the text has at least 50 tokens, and the bigram ratio otherwise; no repeated
\* trigram or bigram gives 0.0, a 3-token phrase repeated five times gives > 0.
C8_TwoTierFallback ==
    penalty # None =>
        LET p3 == WindowPenalty(tokens, 3)
            p2 == WindowPenalty(tokens, 2)
        IN  /\ penalty = IF RLess(Zero, p3) \/ Len(tokens) >= 50 THEN p3 ELSE p2
            /\ (p3 = Zero /\ p2 = Zero => penalty = Zero)
            /\ (IsPhraseRepeatedFive(tokens) => RLess(Zero, penalty))

\* 50 tokens with a repeated bigram and no repeated trigram: no fallback
C8_Witness ==
    /\ penalty # None
    /\ Len(tokens) = 50
    /\ WindowPenalty(tokens, 3) = Zero
    /\ RLess(Zero, WindowPenalty(tokens, 2))
    /\ penalty = Zero

-----------------------------------------------------------------------------
(* Claims about the aggregation *)

Returned == apc = "returned"

Least(S) == CHOOSE v \in S : \A w \in S : RLeq(v, w)
Greatest(S) == CHOOSE v \in S : \A w \in S : RLeq(w, v)

\* v is a whole number of hundredths
IsRounded2(v) == IsNum(v) /\ 100 % v[2] = 0

\* v is a whole number of hundredths at most half a hundredth from exact
NearestHundredth(v, exact) ==
    /\ IsRounded2(v)
    /\ RLeq(RSub(v, exact), <<1, 200>>)
    /\ RLeq(RSub(exact, v), <<1, 200>>)

\* 100 * a / b for b # 0
Percent(a, b) == Rat(100 * a[1] * b[2], a[2] * b[1])

\* v is within 1 of 100
NearHundred(v) == IsNum(v) /\ RLeq(<<99, 1>>, v) /\ RLeq(v, <<101, 1>>)

\* C3 as stated: in a view with exactly one group, norm_fk_grade and
\* norm_repetition_penalty are both near 100.0.
C3_SingleGroupNearHundred ==
    Returned =>
        /\ Cardinality(payload.scatter_data) = 1 =>
             \A r \in payload.scatter_data :
                 NearHundred(r.norm_fk_grade) /\ NearHundred(r.norm_repetition_penalty)
        /\ Cardinality(payload.model_comparison) = 1 =>
             \A r \in payload.model_comparison :
                 NearHundred(r.norm_fk_grade) /\ NearHundred(r.norm_repetition_penalty)

\* C3 amended: in a view with exactly one group get_analytics does not raise
\* and norm_fk_grade and norm_repetition_penalty are both exactly 0.0.
C3_SingleGroupZero ==
    Returned =>
        /\ Cardinality(payload.scatter_data) = 1 =>
             \A r \in payload.scatter_data :
                 r.norm_fk_grade = Zero /\ r.norm_repetition_penalty = Zero
        /\ Cardinality(payload.model_comparison) = 1 =>
             \A r \in payload.model_comparison :
                 r.norm_fk_grade = Zero /\ r.norm_repetition_penalty = Zero

\* a returned payload whose model_comparison holds a single model (its rows
\* falling into two scatter groups) with a nonzero average grade
C3_Witness ==
    /\ Returned
    /\ Cardinality(payload.model_comparison) = 1
    /\ Cardinality(payload.scatter_data) = 2
    /\ \E r \in payload.model_comparison : r.avg_fk_grade # Zero

\* min-max rescaling of one view, each metric whose averages are not all equal
ViewRescaled(view) ==
    LET fks == {r.avg_fk_grade : r \in view}
        rps == {r.avg_repetition_penalty : r \in view}
    IN  /\ Cardinality(fks) > 1 =>
             LET mn == Least(fks)
                 mx == Greatest(fks)
             IN  \A r \in view :
                     /\ NearestHundredth(r.norm_fk_grade,
                                         Percent(RSub(r.avg_fk_grade, mn), RSub(mx, mn)))
                     /\ (r.avg_fk_grade = mx => r.norm_fk_grade = Hundred)
                     /\ (r.avg_fk_grade = mn => r.norm_fk_grade = Zero)
        /\ Cardinality(rps) > 1 =>
             LET mn == Least(rps)
                 mx == Greatest(rps)
             IN  \A r \in view :
                     /\ NearestHundredth(r.norm_repetition_penalty,
                                         Percent(RSub(mx, r.avg_repetition_penalty),
                                                 RSub(mx, mn)))
                     /\ (r.avg_repetition_penalty = mn => r.norm_repetition_penalty = Hundred)
                     /\ (r.avg_repetition_penalty = mx => r.norm_repetition_penalty = Zero)

\* C4: in a view whose group averages are not all equal, norm_fk_grade is
\* 100*(x-min)/(max-min) (highest 100, lowest 0) and norm_repetition_penalty is
\* 100*(max-x)/(max-min) (lowest 100, highest 0), to the 2 decimals returned,
\* with min and max taken over the groups of that view only.
C4_MinMaxWithinView ==
    Returned => ViewRescaled(payload.scatter_data) /\ ViewRescaled(payload.model_comparison)

\* two scatter groups of one model with averages 4.0 and 10.0: 0.0 and 100.0
C4_Witness ==
    /\ Returned
    /\ Cardinality(payload.scatter_data) = 2
    /\ Cardinality(payload.model_comparison) = 1
    /\ \E a, b \in payload.scatter_data :
         /\ a.avg_fk_grade = <<4, 1>> /\ a.norm_fk_grade = Zero
         /\ b.avg_fk_grade = <<10, 1>> /\ b.norm_fk_grade = Hundred

KpiFields == {"overall_avg_lexical_diversity", "overall_avg_query_coverage",
              "overall_avg_fk_grade", "overall_avg_repetition_penalty"}

\* C7: over an empty table get_analytics returns scatter_data == [],
\* model_comparison == [] and a kpi block whose four fields are 0, not null.
C7_EmptyStore ==
    (Returned /\ store = <<>>) =>
        /\ payload.scatter_data = {}
        /\ payload.model_comparison = {}
        /\ DOMAIN payload.kpi = KpiFields
        /\ \A f \in KpiFields : payload.kpi[f] = Zero

\* a get_analytics call that ran to its return on an empty table
C7_Witness == Returned /\ store = <<>> /\ up

AvgFields == {"avg_lexical_diversity", "avg_query_coverage", "avg_fk_grade",
              "avg_repetition_penalty"}
NormFields == {"norm_lexical_diversity", "norm_query_coverage", "norm_fk_grade",
               "norm_repetition_penalty"}

\* C9 as stated: every avg_*, norm_* and kpi field returned is rounded to 2
\* decimal places.
C9_AllFieldsRounded ==
    Returned =>
        /\ \A r \in payload.scatter_data : \A f \in AvgFields \cup NormFields : IsRounded2(r[f])
        /\ \A r \in payload.model_comparison :
               \A f \in AvgFields \cup NormFields : IsRounded2(r[f])
        /\ \A f \in KpiFields : IsRounded2(payload.kpi[f])

RECURSIVE TotalOf(_, _)
TotalOf(rows, f) == IF rows = <<>> THEN Zero ELSE RAdd(rows[1][f], TotalOf(Tail(rows), f))

\* the exact mean of column f over the rows of the table that satisfy In
MeanOf(In(_), f) ==
    LET rows == SelectSeq(store, In)
    IN  Rat(TotalOf(rows, f)[1], TotalOf(rows, f)[2] * Len(rows))

\* one view: avg_* are the exact group means, norm_* are whole hundredths
\* computed from those exact means
ViewRoundedAtOutput(view, Member(_, _)) ==
    LET fkOf(g) == MeanOf(LAMBDA x : Member(x, g), "flesch_kincaid_grade")
        rpOf(g) == MeanOf(LAMBDA x : Member(x, g), "repetition_penalty")
        fks == {fkOf(g) : g \in view}
        rps == {rpOf(g) : g \in view}
    IN  \A r \in view :
            /\ r.avg_lexical_diversity = MeanOf(LAMBDA x : Member(x, r), "lexical_diversity")
            /\ r.avg_query_coverage = MeanOf(LAMBDA x : Member(x, r), "query_coverage")
            /\ r.avg_fk_grade = fkOf(r)
            /\ r.avg_repetition_penalty = rpOf(r)
            /\ NearestHundredth(r.norm_lexical_diversity, r.avg_lexical_diversity)
            /\ NearestHundredth(r.norm_query_coverage, r.avg_query_coverage)
            /\ IsRounded2(r.norm_fk_grade)
            /\ IsRounded2(r.norm_repetition_penalty)
            /\ Cardinality(fks) > 1 =>
                 NearestHundredth(r.norm_fk_grade,
                                  Percent(RSub(fkOf(r), Least(fks)),
                                          RSub(Greatest(fks), Least(fks))))
            /\ Cardinality(rps) > 1 =>
                 NearestHundredth(r.norm_repetition_penalty,
                                  Percent(RSub(Greatest(rps), rpOf(r)),
                                          RSub(Greatest(rps), Least(rps))))

InScatterGroup(x, g) ==
    x.model = g.model /\ x.temperature = g.temperature /\ x.top_p = g.top_p
InModelGroup(x, g) == x.model = g.model

\* C9 amended: every norm_* field and every kpi field is rounded to 2 decimal
\* places; the avg_* fields are returned unrounded, as the exact group means;
\* min, max and the rescaling are computed from those unrounded averages.
C9_RoundedAtOutputOnly ==
    Returned =>
        /\ ViewRoundedAtOutput(payload.scatter_data, InScatterGroup)
        /\ ViewRoundedAtOutput(payload.model_comparison, InModelGroup)
        /\ \A f \in KpiFields : IsRounded2(payload.kpi[f])
        /\ store # <<>> =>
             /\ NearestHundredth(payload.kpi.overall_avg_lexical_diversity,
                                 MeanOf(LAMBDA x : TRUE, "lexical_diversity"))
             /\ NearestHundredth(payload.kpi.overall_avg_query_coverage,
                                 MeanOf(LAMBDA x : TRUE, "query_coverage"))
             /\ NearestHundredth(payload.kpi.overall_avg_fk_grade,
                                 MeanOf(LAMBDA x : TRUE, "flesch_kincaid_grade"))
             /\ NearestHundredth(payload.kpi.overall_avg_repetition_penalty,
                                 MeanOf(LAMBDA x : TRUE, "repetition_penalty"))

\* a view where rounding the averages first would change a rescaled value, and
\* an average that is no whole number of hundredths is returned as it is
C9_Witness ==
    /\ Returned
    /\ \E r \in payload.scatter_data :
         /\ ~IsRounded2(r.avg_fk_grade)
         /\ ~IsRounded2(r.avg_lexical_diversity)
    /\ normalize_view_rounded_first(scatter_query(store)) # payload.scatter_data

-----------------------------------------------------------------------------
(* Claims about the service *)

\* C5: a parameter pair whose external call failed is never persisted: every
\* row test_prompt stored comes from a result without error whose metrics
\* were computed, and carries that result's parameters and metrics.
C5_FailedPairsNotPersisted ==
    \A i \in 1..Len(store) :
        origin[i].kind = "test_prompt" =>
            LET r == origin[i].result
            IN  /\ r.error = "None"
                /\ r.output # NoOutput
                /\ r.metrics # NoMetrics
                /\ ~Raised(r.metrics)
                /\ store[i].temperature = r.temperature
                /\ store[i].top_p = r.top_p
                /\ \A f \in MetricFields : store[i][f] = r.metrics[f]

\* a finished batch with one failed and one successful pair, the latter stored
C5_Witness ==
    /\ req # Idle /\ req.pc = "returned"
    /\ \E i, j \in 1..Len(req.results) :
         /\ req.results[i].error # "None"
         /\ req.results[j].error = "None"
    /\ \E i \in 1..Len(store) : origin[i].kind = "test_prompt"

\* C6: scatter_data, model_comparison and kpi of one returned payload are all
\* computed from the same set of rows, also while test_prompt commits rows.
\* The table only grows, so a snapshot is a prefix of it.
C6_OneSnapshot ==
    Returned => \E k \in 0..Len(store) : payload = analytics_of(SubSeq(store, 1, k))

\* the result of pair i is the error-tagged result of a failed call
ErrorTagged(r) ==
    /\ r.output = NoOutput
    /\ r.metrics = NoMetrics
    /\ r.error = ApiError

\* the result of a call that answered with text: the metrics are those of the
\* request's prompt and of this pair's own response
OwnMetrics(r) ==
    /\ r.error = "None"
    /\ r.output # NoOutput
    /\ r.metrics = calculate_metrics(req.payload.prompt, r.output)

\* C11: a failed external call yields an error-tagged result (output None,
\* metrics None, error set) for its own pair only and never ends the batch
\* with an exception: the handler gets past gather with one result per pair,
\* and every ended pair, in whatever order the calls ended, carries its own
\* temperature and top_p and either the error tag or the metrics of the
\* request's prompt and its own response.
C11_FailureStaysInItsPair ==
    req # Idle =>
        /\ req.pc # "failed"
        /\ Len(req.results) = Len(req.payload.param_pairs)
        /\ req.pc \in {"persist", "returned"} =>
               \A i \in 1..Len(req.results) : req.results[i] # Pending
        /\ \A i \in 1..Len(req.results) :
               req.results[i] # Pending =>
                   LET r == req.results[i]
                       pair == req.payload.param_pairs[i]
                   IN  /\ r.temperature = pair.temperature
                       /\ r.top_p = pair.top_p
                       /\ ErrorTagged(r) \/ OwnMetrics(r)

\* an answered batch whose second call ended first and failed, and whose first
\* call then succeeded with metrics of a non-empty response
C11_Witness ==
    /\ req # Idle /\ req.pc = "returned"
    /\ req.order = <<2, 1>>
    /\ ErrorTagged(req.results[2])
    /\ OwnMetrics(req.results[1])
    /\ req.results[1].metrics # zero_metrics

\* the positions of the rows that came from the seed file
SeedRows == {i \in 1..Len(store) : origin[i].kind = "seed"}

\* the tables a seed file can give: the parsed lines of one file, all of them
SeedTables ==
    {[i \in 1..Len(csv.lines) |-> csv_row(csv.lines[i])] :
        csv \in {c \in CsvFiles : c.exists}}

\* the start-up call ended without inserting: the table had rows, the seed
\* file was missing, or the file had no data row
NothingToSeed == seeding.log \in {"already populated", "not found", "no rows"}

\* C12: populate_db_from_csv seeds at most once: whatever start-ups, stops
\* and test_prompt inserts came before, the seed rows in the table are the
\* first rows of it and are the lines of one seed file, once; and a start-up
\* call that finds rows in the table, no seed file, or a file without data
\* rows leaves the table as it found it: the table it found is still the head
\* of the table and no seed row stands after it.
C12_SeedsAtMostOnce ==
    /\ SeedRows = 1..Cardinality(SeedRows)
    /\ SubSeq(store, 1, Cardinality(SeedRows)) \in SeedTables
    /\ up =>
          /\ Len(store) >= Len(seeding.before)
          /\ SubSeq(store, 1, Len(seeding.before)) = seeding.before
          /\ seeding.before # <<>> => seeding.log = "already populated"
          /\ NothingToSeed => \A i \in SeedRows : i <= Len(seeding.before)

\* the process was started again over a table that holds the seed row and a
\* test_prompt row, and the table is as it was
C12_Witness ==
    /\ up
    /\ seeding.log = "already populated"
    /\ Len(seeding.before) = 2
    /\ origin[1].kind = "seed" /\ origin[2].kind = "test_prompt"
    /\ store = seeding.before

\* the pairs of the request in flight whose call succeeded
Succeeded == {i \in 1..Len(req.results) : req.results[i].error = "None"}

\* the rows the request in flight has added to the table
RowsOfRequest == SubSeq(store, req.rows0 + 1, Len(store))

\* the row of successful pair i is the k-th added, k counting the
\* successful pairs up to i
RowOf(i) == RowsOfRequest[Cardinality({j \in Succeeded : j <= i})]

\* an answered request: one result per pair in the order of the pairs, one
\* row per successful result in the same order, tagged with the request's
\* prompt and model, the pair's own parameters and the result's metrics
AnsweredBatchPersisted ==
    (req # Idle /\ req.pc = "returned") =>
        LET pairs == req.payload.param_pairs
        IN  /\ Len(req.results) = Len(pairs)
            /\ \A i \in 1..Len(pairs) :
                   /\ req.results[i].temperature = pairs[i].temperature
                   /\ req.results[i].top_p = pairs[i].top_p
            /\ Len(RowsOfRequest) = Cardinality(Succeeded)
            /\ \A i \in Succeeded :
                   /\ RowOf(i).prompt = req.payload.prompt
                   /\ RowOf(i).model = req.payload.model
                   /\ RowOf(i).temperature = pairs[i].temperature
                   /\ RowOf(i).top_p = pairs[i].top_p
                   /\ \A f \in MetricFields :
                          /\ RowOf(i)[f] = req.results[i].metrics[f]
                          /\ word_tokenize(req.results[i].output) = <<>> =>
                                 RowOf(i)[f] = Zero

\* a step keeps every row of the table where it is and as it is
AppendOnly ==
    /\ Len(store') >= Len(store)
    /\ SubSeq(store', 1, Len(store)) = store

\* C13: test_prompt answers with one result per entry of param_pairs, in the
\* order of param_pairs, and has stored exactly one row for each successful
\* result, a zero-token success with all-zero metrics included, tagged with
\* the request's prompt and model and the pair's own temperature and top_p;
\* equal pairs give equal rows, and no step updates or deletes a row.
C13_OneRowPerSuccess == []AnsweredBatchPersisted /\ [][AppendOnly]_vars

\* an answered request of two equal pairs, both answered with a response of
\* no tokens: two equal rows with all-zero metrics were added
C13_Witness ==
    /\ req # Idle /\ req.pc = "returned"
    /\ Len(req.results) = 2
    /\ req.payload.param_pairs[1] = req.payload.param_pairs[2]
    /\ Succeeded = {1, 2}
    /\ \A i \in 1..2 : word_tokenize(req.results[i].output) = <<>>
    /\ Len(RowsOfRequest) = 2
    /\ RowsOfRequest[1] = RowsOfRequest[2]
    /\ \A f \in MetricFields : RowsOfRequest[1][f] = Zero

-----------------------------------------------------------------------------
(* Claims about the grouping of the aggregation *)

StoredKeys == {<<store[i].model, store[i].temperature, store[i].top_p>> : i \in 1..Len(store)}
StoredModels == {store[i].model : i \in 1..Len(store)}

\* the scatter rows of one (model, temperature, top_p), of one model
ScatterRowsOfKey(k) ==
    {g \in payload.scatter_data : <<g.model, g.temperature, g.top_p>> = k}
ScatterRowsOfModel(m) == {g \in payload.scatter_data : g.model = m}

RECURSIVE RunCount(_)
\* the sum of run_count over a set of scatter rows
RunCount(S) ==
    IF S = {} THEN 0
    ELSE LET g == CHOOSE x \in S : TRUE IN g.run_count + RunCount(S \ {g})

RECURSIVE WeightedTotal(_, _)
\* the sum of run_count * column f over a set of scatter rows
WeightedTotal(S, f) ==
    IF S = {} THEN Zero
    ELSE LET g == CHOOSE x \in S : TRUE
         IN  RAdd(RMul(g[f], RInt(g.run_count)), WeightedTotal(S \ {g}, f))

\* C14: in a payload computed from one set of stored rows the scatter groups
\* partition the rows: every stored (model, temperature, top_p) has exactly
\* one scatter_data row, whose run_count is the number of rows with that key,
\* every scatter row is of a stored key, and the run_count values add up to
\* the number of stored rows; every stored model has exactly one
\* model_comparison row, and that row's averages are those of the rows of
\* the model's scatter groups, each group weighted by its run_count.
C14_GroupsPartitionRows ==
    Returned =>
        /\ \A k \in StoredKeys :
               /\ Cardinality(ScatterRowsOfKey(k)) = 1
               /\ \A g \in ScatterRowsOfKey(k) :
                      g.run_count = Cardinality({i \in 1..Len(store) :
                          <<store[i].model, store[i].temperature, store[i].top_p>> = k})
        /\ \A g \in payload.scatter_data :
               <<g.model, g.temperature, g.top_p>> \in StoredKeys
        /\ RunCount(payload.scatter_data) = Len(store)
        /\ \A m \in StoredModels :
               Cardinality({c \in payload.model_comparison : c.model = m}) = 1
        /\ \A c \in payload.model_comparison :
               /\ c.model \in StoredModels
               /\ RunCount(ScatterRowsOfModel(c.model)) =
                      Cardinality({i \in 1..Len(store) : store[i].model = c.model})
               /\ \A f \in AvgFields :
                      RMul(c[f], RInt(RunCount(ScatterRowsOfModel(c.model)))) =
                          WeightedTotal(ScatterRowsOfModel(c.model), f)

\* a payload over three rows of one model in two scatter groups of unequal
\* size and unequal averages, and one model_comparison row over both
C14_Witness ==
    /\ Returned
    /\ Len(store) = 3
    /\ Cardinality(payload.model_comparison) = 1
    /\ Cardinality(payload.scatter_data) = 2
    /\ \E g, h \in payload.scatter_data :
          /\ g.run_count = 2 /\ h.run_count = 1
          /\ g.avg_fk_grade # h.avg_fk_grade
          /\ \A c \in payload.model_comparison :
                 c.avg_fk_grade # g.avg_fk_grade /\ c.avg_fk_grade # h.avg_fk_grade

====
